---- MODULE Spec2Model ----
(***************************************************************************)
(* Completion-detection and aggregation-trigger engine of                  *)
(* youtube_product_aggregator/main.py: the Pending Registry                *)
(* (pending_queries), the Event Handler (product_aggregator), the          *)
(* Background Sweeper (query_monitoring_worker), the Completion Policy     *)
(* (check_query_completion), the Aggregation Trigger                       *)
(* (process_query_complete) and the Dedup Guard                            *)
(* (insert_product_summary_to_bigquery).                                   *)
(*                                                                         *)
(* Time.  The code only ever compares differences of timestamps with its   *)
(* configured windows, so every stored timestamp t is represented by its   *)
(* age now - t in minutes; "datetime.now()" is age 0.  Tick adds one       *)
(* minute to every registry and Sweeper age; these saturate at AgeCap,     *)
(* which lies above both registry windows.  A row of product_summaries     *)
(* stays younger than the staleness threshold under Tick; TickHour lets    *)
(* more than a staleness window pass at once.                              *)
(*                                                                         *)
(* Strings are sequences of one-character strings, so that lower(),        *)
(* strip(), title() and the whitespace regex are computed, not assumed.    *)
(***************************************************************************)
EXTENDS Integers, Sequences, FiniteSets, TLC

\* ------------------------------------------------------------------ bounds
MaxVideos == 2
AgeCap == 6
MaxRows == 2
\* the pure-function specification: items of a store, rows of a table and
\* review counts handed to the functions
MaxGroup == 4
MaxTableRows == 2
MaxCandidate == 5
\* the aggregation-run specification: items of the store a run reads
MaxRunVideos == 4
\* the Group Index lookups: items of a drawn catalog
MaxLookup == 3

\* ------------------------------------------------------- program constants
MIN_REVIEWS_PER_PRODUCT == 2
WAIT_TIME_MINUTES == 3
QUERY_TIMEOUT_MINUTES == 5
\* MIN_COMPLETION_RATE = 0.5, kept as the fraction RATE_NUM / RATE_DEN
RATE_NUM == 1
RATE_DEN == 2
\* staleness threshold of the Dedup Guard: 3600 seconds
STALE_SECONDS == 3600
StaleMinutes == STALE_SECONDS \div 60
\* attempt ceiling of the retry loop of product_summary_api
max_retries == 3

\* ----------------------------------------------------------------- strings
Lower(c) ==
    CASE c = "N" -> "n"
      [] c = "I" -> "i"
      [] c = "K" -> "k"
      [] c = "E" -> "e"
      [] OTHER -> c

Upper(c) ==
    CASE c = "n" -> "N"
      [] c = "i" -> "I"
      [] c = "k" -> "K"
      [] c = "e" -> "E"
      [] OTHER -> c

IsSpace(c) == c = " "

\* str.lower()
LowerStr(s) == [i \in 1..Len(s) |-> Lower(s[i])]

RECURSIVE LStrip(_)
LStrip(s) ==
    IF s # <<>> /\ IsSpace(Head(s)) THEN LStrip(Tail(s)) ELSE s

RECURSIVE RStrip(_)
RStrip(s) ==
    IF s # <<>> /\ IsSpace(s[Len(s)]) THEN RStrip(SubSeq(s, 1, Len(s) - 1)) ELSE s

\* str.strip()
Strip(s) == RStrip(LStrip(s))

\* re.sub(r'\s+', ' ', s): every maximal run of whitespace becomes one space
RECURSIVE CollapseSpaces(_)
CollapseSpaces(s) ==
    IF s = <<>> THEN <<>>
    ELSE IF IsSpace(Head(s))
         THEN <<" ">> \o CollapseSpaces(LStrip(s))
         ELSE <<Head(s)>> \o CollapseSpaces(Tail(s))

\* str.title(): a letter that follows a non-letter is upper-cased, every other
\* letter lower-cased
TitleStr(s) ==
    [i \in 1..Len(s) |->
        IF i = 1 \/ IsSpace(s[i - 1]) THEN Upper(s[i]) ELSE Lower(s[i])]

\* normalize_query as the code computes it
NormalizeSeq(query) ==
    IF query = <<>> THEN <<>>
    ELSE CollapseSpaces(Strip(LowerStr(query)))

\* the raw search_query values that item metadata carries in this model:
\* a plain key, a spelling of the same key in another case and with padding,
\* and the missing/empty key
KeyPlain == <<"n", "i", "k", "e">>
KeyVariant == <<" ", "N", "I", "K", "E">>
KeyEmpty == <<>>
RawKeys == {KeyPlain, KeyVariant, KeyEmpty}

\* two spellings of a two-word key that differ in their inner whitespace:
\* one group, two product names
KeyTwoWords == <<"n", "i", " ", "k", "e">>
KeyWide == <<"n", "i", " ", " ", "k", "e">>
RunKeys == {KeyTwoWords, KeyWide}

\* further spellings of the two-word key (title case, padded, upper case)
\* and a key that consists of whitespace only
KeyTitle == <<"N", "i", " ", "K", "e">>
KeyPadded == <<" ", "n", "i", " ", " ", " ", "k", "e", " ">>
KeyUpper == <<"N", "I", " ", "K", "E">>
KeyBlank == <<" ">>
LookupKeys == RawKeys \cup RunKeys \cup {KeyTitle, KeyPadded, KeyUpper, KeyBlank}

NormTable == [k \in LookupKeys |-> NormalizeSeq(k)]

\* mutant of normalize_query: inner whitespace is left as it is
LowerStripOnly(query) ==
    IF query = <<>> THEN <<>> ELSE Strip(LowerStr(query))

normalize_query(query) ==
    IF query \in DOMAIN NormTable THEN NormTable[query] ELSE NormalizeSeq(query)

\* Python truthiness of a str
Truthy(s) == s # <<>>

\* ------------------------------------------------------------------- state
Videos == 1..MaxVideos
\* values that are no search_query string
NoMeta == <<"NoMeta">>
NoQuery == <<"NoQuery">>
\* query_start_time: None, or a datetime given by its age
NoStart == <<>>
StartAt(age) == <<age>>

VARIABLES
    env_keys,           \* the search_query values upstream producers write
    catalog,            \* processed/videos/{id}.json: video id -> search_query, or NoMeta
    transcripts,        \* ids with transcripts/{id}.txt
    summaries,          \* ids with summaries/{id}.txt
    pending_queries,    \* the registry: raw search_query -> [last_update: age]
    processing_lock,    \* "free", or the thread that holds it
    product_summaries,  \* analytical-store table, oldest row first
    h_pc,               \* Event Handler position
    h_query,            \* Event Handler: search_query of the notifying item
    h_groups,           \* Event Handler: product groups inside process_query_complete
    s_pc,               \* Sweeper position
    s_time,             \* Sweeper: age of current_time
    s_todo,             \* Sweeper: keys the current pass still has to look at
    queries_to_process, \* Sweeper: queries_to_process
    s_query,            \* Sweeper: query inside process_query_complete
    s_groups,           \* Sweeper: product groups inside process_query_complete
    s_removed,          \* history: keys this iteration deleted from the registry
    s_invoked,          \* history: keys this iteration passed to process_query_complete
    was_complete,       \* history: groups some evaluation found all complete
    pol,                \* inputs and result of the last pure-function application
    a_pc,               \* aggregation run: position inside process_query_complete
    a_caller,           \* aggregation run: who called process_query_complete
    a_query,            \* aggregation run: its search_query argument
    a_complete_videos,  \* aggregation run: complete_videos
    product_groups,     \* aggregation run: product groups the loop has not reached
    a_product,          \* aggregation run: the product group of the current turn
    gen_calls,          \* aggregation run: ChatCompletion calls made for a_product
    product_files,      \* products/ objects the current run has saved
    processed_products, \* aggregation run: processed_products
    a_log,              \* what the current run has logged about each product
    a_status,           \* aggregation run: completion_status of its caller
    response            \* reply of the endpoint to the request served last

vars == <<env_keys, catalog, transcripts, summaries, pending_queries, processing_lock,
          product_summaries, h_pc, h_query, h_groups, s_pc, s_time,
          s_todo, queries_to_process, s_query, s_groups, s_removed, s_invoked,
          was_complete, pol, a_pc, a_caller, a_query, a_complete_videos,
          product_groups, a_product, gen_calls, product_files,
          processed_products, a_log, a_status, response>>

aggVars == <<a_pc, a_caller, a_query, a_complete_videos, product_groups,
             a_product, gen_calls, product_files, processed_products, a_log,
             a_status, response>>

envVars == <<env_keys, catalog, transcripts, summaries>>
handlerVars == <<h_pc, h_query, h_groups>>
sweeperVars == <<s_pc, s_time, s_todo, queries_to_process, s_query, s_groups,
                 s_removed, s_invoked>>
historyVars == <<was_complete>>

\* ------------------------------------------------------------- Group Index
\* get_all_video_metadata: the catalog in listing order
get_all_video_metadata(cat) ==
    {v \in DOMAIN cat : cat[v] # NoMeta}

\* get_videos_by_query: items whose normalized key equals the normalized query
get_videos_by_query(cat, search_query) ==
    {v \in get_all_video_metadata(cat) :
        normalize_query(cat[v]) = normalize_query(search_query)}

\* ------------------------------------------------------- Completion Policy
NoStatus ==
    [completed |-> FALSE, total_videos |-> 0, completed_videos |-> 0,
     pending_videos |-> 0, timeout_complete |-> FALSE, reason |-> "none"]

ErrorStatus ==
    [completed |-> FALSE, total_videos |-> 0, completed_videos |-> 0,
     pending_videos |-> 0, timeout_complete |-> FALSE, reason |-> "error"]

NoVideosStatus ==
    [completed |-> FALSE, total_videos |-> 0, completed_videos |-> 0,
     pending_videos |-> 0, timeout_complete |-> FALSE,
     reason |-> "no_videos_found"]

\* mutant of IsCompleteVideo: only the summary is probed
HasSummaryOnly(v, trs, sums) == v \in sums

\* has_transcript and has_summary
IsCompleteVideo(v, trs, sums) == v \in trs /\ v \in sums

\* mutant of RateAtLeastMin: the comparison is reversed
RateAtMostMin(completed_videos, total_videos) ==
    IF total_videos > 0
    THEN completed_videos * RATE_DEN <= RATE_NUM * total_videos
    ELSE 0 <= RATE_NUM

\* completion_rate >= MIN_COMPLETION_RATE, in exact arithmetic
RateAtLeastMin(completed_videos, total_videos) ==
    IF total_videos > 0
    THEN completed_videos * RATE_DEN >= RATE_NUM * total_videos
    ELSE 0 >= RATE_NUM

\* mutant of TimedOut: the window is compared with >=
TimedOutInclusive(query_start_time) ==
    query_start_time # NoStart /\ query_start_time[1] >= QUERY_TIMEOUT_MINUTES

\* time_elapsed.total_seconds() > timeout_minutes * 60
TimedOut(query_start_time) ==
    query_start_time # NoStart /\ query_start_time[1] > QUERY_TIMEOUT_MINUTES

\* lines 158-213: the decision once the items have been counted
CompletionDecision(total_videos, completed_videos, query_start_time) ==
    LET all_complete == completed_videos = total_videos /\ total_videos > 0
        timeout_complete ==
            /\ query_start_time # NoStart
            /\ ~all_complete
            /\ TimedOut(query_start_time)
            /\ RateAtLeastMin(completed_videos, total_videos)
    IN  [completed |-> all_complete \/ timeout_complete,
         total_videos |-> total_videos,
         completed_videos |-> completed_videos,
         pending_videos |-> total_videos - completed_videos,
         timeout_complete |-> timeout_complete,
         reason |-> "ok"]

\* check_query_completion(search_query, query_start_time) against the store
\* (cat, trs, sums); query_start_time is StartAt(age) or NoStart;
\* fault = TRUE when a store call inside the try block raises
check_query_completion(cat, trs, sums, search_query, query_start_time, fault) ==
    LET query_videos == get_videos_by_query(cat, search_query)
        completed_videos ==
            Cardinality({v \in query_videos : IsCompleteVideo(v, trs, sums)})
    IN  IF query_videos = {} THEN NoVideosStatus
        ELSE IF fault THEN ErrorStatus
        ELSE CompletionDecision(Cardinality(query_videos), completed_videos,
                                query_start_time)

AllComplete(status) ==
    status.completed_videos = status.total_videos /\ status.total_videos > 0

\* --------------------------------------------------------------- Dedup Guard
\* rows of product_summaries for (product_name, search_query)
ExistingRows(table, product_name, search_query) ==
    {i \in 1..Len(table) :
        /\ table[i].product_name = product_name
        /\ table[i].search_query = search_query}

\* ORDER BY processed_at DESC LIMIT 1: the youngest matching row
MostRecentRow(table, product_name, search_query) ==
    LET rows == ExistingRows(table, product_name, search_query)
    IN  table[CHOOSE i \in rows :
                \A j \in rows :
                    \/ table[i].processed_at < table[j].processed_at
                    \/ (table[i].processed_at = table[j].processed_at /\ i >= j)]

\* line 488: total_reviews <= existing_reviews and time_diff.total_seconds() < 3600
DedupSkips(total_reviews, existing_reviews, time_diff) ==
    total_reviews <= existing_reviews /\ time_diff < StaleMinutes

\* whether insert_product_summary_to_bigquery goes on to insert_rows_json;
\* check_fault = TRUE when the SELECT raises ("continue with insert")
GuardAllowsInsert(table, product_name, search_query, total_reviews, check_fault) ==
    \/ check_fault
    \/ ExistingRows(table, product_name, search_query) = {}
    \/ LET existing == MostRecentRow(table, product_name, search_query)
       IN  ~DedupSkips(total_reviews, existing.total_reviews, existing.processed_at)

\* insert_product_summary_to_bigquery: the table afterwards; insert_ok = FALSE
\* when insert_rows_json reports errors or raises
insert_product_summary_to_bigquery(table, product_name, videos, search_query, check_fault, insert_ok) ==
    LET total_reviews == Cardinality(videos)
    IN  IF /\ GuardAllowsInsert(table, product_name, search_query, total_reviews,
                                check_fault)
           /\ insert_ok
        THEN Append(table, [product_name |-> product_name,
                            search_query |-> search_query,
                            total_reviews |-> total_reviews,
                            processed_at |-> 0])
        ELSE table

\* ------------------------------------------------------ Aggregation Trigger
\* every item's title in this model
VideoTitle == <<"n", "i", "k", "e", " ", "e", "e">>

\* title.split()[:4] joined by single spaces: VideoTitle has two words
FirstWords(title) == CollapseSpaces(Strip(title))

\* extract_product_name(title, search_query); no key of the model starts with
\* the 'raw data/youtube search' prefix
extract_product_name(title, search_query) ==
    IF Truthy(search_query) /\ Len(search_query) > 3
    THEN TitleStr(Strip(LowerStr(search_query)))
    ELSE TitleStr(FirstWords(title))

\* lines 600-636: the complete items of the query, grouped by product name
group_videos_by_product(cat, videos) ==
    LET names == {extract_product_name(VideoTitle, cat[v]) : v \in videos}
    IN  {[product_name |-> p,
          videos |-> {v \in videos : extract_product_name(VideoTitle, cat[v]) = p}]
         : p \in names}

\* lines 601-661 of process_query_complete: the product groups that reach the
\* insert; gen_ok = FALSE when generate_product_summary returns None
ProductsToInsert(cat, trs, sums, search_query, gen_ok) ==
    LET query_videos == get_videos_by_query(cat, search_query)
        complete_videos == {v \in query_videos : IsCompleteVideo(v, trs, sums)}
    IN  IF query_videos = {} \/ complete_videos = {} \/ ~gen_ok THEN {}
        ELSE {g \in group_videos_by_product(cat, complete_videos) :
                Cardinality(g.videos) >= MIN_REVIEWS_PER_PRODUCT}

\* lines 467-495 for the product groups of one run: those for which the
\* SELECT of the Dedup Guard, reading table, lets the insert go ahead
GuardAll(table, groups, search_query, check_fault) ==
    {g \in groups :
        GuardAllowsInsert(table, g.product_name, search_query,
                          Cardinality(g.videos), check_fault)}

\* lines 497-519 for the product groups that passed the guard:
\* insert_rows_json appends the row to the table as it is by then
RECURSIVE WriteAll(_, _, _, _)
WriteAll(table, groups, search_query, insert_ok) ==
    IF groups = {} THEN table
    ELSE LET g == CHOOSE x \in groups : TRUE
             written ==
                 IF insert_ok /\ Len(table) < MaxRows
                 THEN Append(table, [product_name |-> g.product_name,
                                     search_query |-> search_query,
                                     total_reviews |-> Cardinality(g.videos),
                                     processed_at |-> 0])
                 ELSE table
         IN  WriteAll(written, groups \ {g}, search_query, insert_ok)

\* -------------------------------------------------------------------- time
Older(age) == IF age >= AgeCap THEN age ELSE age + 1

MuchOlder(age) == IF age > StaleMinutes THEN age ELSE StaleMinutes + 1

CapAge(age) == AgeCap

AgeRegistry(pq, hour) ==
    [q \in DOMAIN pq |->
        [pq[q] EXCEPT !.last_update = IF hour THEN CapAge(@) ELSE Older(@)]]


\* one minute passes
Tick ==
    /\ pending_queries' = AgeRegistry(pending_queries, FALSE)
    /\ s_time' = IF s_pc \in {"scan", "fallback"} THEN Older(s_time) ELSE s_time
    /\ UNCHANGED <<envVars, processing_lock, product_summaries, handlerVars, s_pc, s_todo,
                   queries_to_process, s_query, s_groups, s_removed, s_invoked,
                   historyVars, pol, aggVars>>

\* more than a staleness window passes
TickHour ==
    /\ product_summaries # <<>>
    /\ pending_queries' = AgeRegistry(pending_queries, TRUE)
    /\ product_summaries' =
           [i \in 1..Len(product_summaries) |->
               [product_summaries[i] EXCEPT !.processed_at = MuchOlder(@)]]
    /\ s_time' = IF s_pc \in {"scan", "fallback"} THEN AgeCap ELSE s_time
    /\ UNCHANGED <<envVars, processing_lock, handlerVars, s_pc, s_todo,
                   queries_to_process, s_query, s_groups, s_removed, s_invoked,
                   historyVars, pol, aggVars>>

\* ------------------------------------------------------------- environment
\* an upstream producer writes the metadata record of the next item
UploadVideo(v, search_query) ==
    /\ search_query \in env_keys
    /\ catalog[v] = NoMeta
    /\ \A u \in Videos : u < v => catalog[u] # NoMeta
    /\ catalog' = [catalog EXCEPT ![v] = search_query]
    /\ UNCHANGED <<env_keys, transcripts, summaries, pending_queries, processing_lock,
                   product_summaries, handlerVars, sweeperVars, historyVars, pol, aggVars>>

\* youtube_transcript_processor: triggered by the metadata upload
WriteTranscript(v) ==
    /\ catalog[v] # NoMeta
    /\ v \notin transcripts
    /\ transcripts' = transcripts \cup {v}
    /\ UNCHANGED <<env_keys, catalog, summaries, pending_queries, processing_lock,
                   product_summaries, handlerVars, sweeperVars, historyVars, pol, aggVars>>

\* youtube_transcript_summarizer: triggered by the transcript upload
WriteSummary(v) ==
    /\ catalog[v] # NoMeta
    /\ v \in transcripts
    /\ v \notin summaries
    /\ summaries' = summaries \cup {v}
    /\ UNCHANGED <<env_keys, catalog, transcripts, pending_queries, processing_lock,
                   product_summaries, handlerVars, sweeperVars, historyVars, pol, aggVars>>

\* ---------------------------------------------------------------- history
SameGroup(k, q) == normalize_query(k) = normalize_query(q)

Registered(pq, search_query) ==
    \E k \in DOMAIN pq : SameGroup(k, search_query)

\* what an evaluation of search_query with result status leaves in the history
NoteEvaluation(search_query, status) ==
    was_complete' =
        IF AllComplete(status)
        THEN was_complete \cup {normalize_query(search_query)}
        ELSE was_complete

\* ---------------------------------------------------------------- registry
\* add_query_to_monitoring, lines 761-770
add_query_to_monitoring(pq, search_query) ==
    IF search_query \notin DOMAIN pq
    THEN [q \in DOMAIN pq \cup {search_query} |->
            IF q = search_query THEN [last_update |-> 0, videos |-> <<>>]
            ELSE pq[q]]
    ELSE [pq EXCEPT ![search_query].last_update = 0]

\* del pending_queries[search_query]
DeleteEntry(pq, search_query) ==
    [q \in DOMAIN pq \ {search_query} |-> pq[q]]

\* ------------------------------------------------------------ Event Handler
\* mutant of HandleMetadata: the registry is written without the lock
HandleMetadataUnlocked(v) ==
    /\ h_pc = "idle"
    /\ catalog[v] # NoMeta
    /\ IF Truthy(catalog[v])
       THEN pending_queries' = add_query_to_monitoring(pending_queries, catalog[v])
       ELSE UNCHANGED pending_queries
    /\ UNCHANGED <<envVars, processing_lock, product_summaries, handlerVars,
                   sweeperVars, was_complete, pol, aggVars>>

\* lines 802-811: OBJECT_FINALIZE of processed/videos/{v}.json
HandleMetadata(v) ==
    /\ h_pc = "idle"
    /\ catalog[v] # NoMeta
    /\ processing_lock = "free"
    /\ IF Truthy(catalog[v])
       THEN pending_queries' = add_query_to_monitoring(pending_queries, catalog[v])
       ELSE UNCHANGED pending_queries
    /\ UNCHANGED <<envVars, processing_lock, product_summaries, handlerVars,
                   sweeperVars, was_complete, pol, aggVars>>

\* mutant of HandlerCheck: the notification also registers the item's query
HandlerCheckRegistering(v, fault) ==
    LET search_query == catalog[v]
        completion_status ==
            check_query_completion(catalog, transcripts, summaries,
                                   search_query, StartAt(0), fault)
    IN  /\ h_pc = "idle"
        /\ catalog[v] # NoMeta
        /\ IF Truthy(search_query)
           THEN /\ pending_queries' =
                       add_query_to_monitoring(pending_queries, search_query)
                /\ NoteEvaluation(search_query, completion_status)
                /\ IF completion_status.completed
                   THEN /\ h_pc' = "process"
                        /\ h_query' = search_query
                   ELSE UNCHANGED <<h_pc, h_query>>
           ELSE UNCHANGED <<h_pc, h_query, historyVars, pending_queries>>
        /\ UNCHANGED <<envVars, processing_lock,
                       product_summaries, h_groups, sweeperVars, pol, aggVars>>

\* lines 816-828 and 833-845: the item's query is evaluated with now as the
\* start time and processed inline when the evaluation says completed
HandlerCheck(v, fault) ==
    LET search_query == catalog[v]
        completion_status ==
            check_query_completion(catalog, transcripts, summaries,
                                   search_query, StartAt(0), fault)
    IN  /\ h_pc = "idle"
        /\ catalog[v] # NoMeta
        /\ IF Truthy(search_query)
           THEN /\ NoteEvaluation(search_query, completion_status)
                /\ IF completion_status.completed
                   THEN /\ h_pc' = "process"
                        /\ h_query' = search_query
                   ELSE UNCHANGED <<h_pc, h_query>>
           ELSE UNCHANGED <<h_pc, h_query, historyVars>>
        /\ UNCHANGED <<envVars, pending_queries, processing_lock,
                       product_summaries, h_groups, sweeperVars, pol, aggVars>>

\* OBJECT_FINALIZE of transcripts/{v}.txt
HandleTranscript(v, fault) ==
    /\ v \in transcripts
    /\ HandlerCheck(v, fault)

\* OBJECT_FINALIZE of summaries/{v}.txt
HandleSummary(v, fault) ==
    /\ v \in summaries
    /\ HandlerCheck(v, fault)

\* process_query_complete up to the saved files, called from line 828 or 845
HandlerProcess(gen_ok) ==
    /\ h_pc = "process"
    /\ h_groups' = ProductsToInsert(catalog, transcripts, summaries, h_query, gen_ok)
    /\ h_pc' = "insert"
    /\ UNCHANGED <<envVars, pending_queries, processing_lock, product_summaries,
                   h_query, sweeperVars, historyVars, pol, aggVars>>

\* lines 467-495 inside insert_product_summary_to_bigquery: the SELECT of
\* the Dedup Guard and its verdict; no lock is held
HandlerGuard(check_fault) ==
    /\ h_pc = "insert"
    /\ h_groups' = GuardAll(product_summaries, h_groups, h_query, check_fault)
    /\ h_pc' = "write"
    /\ UNCHANGED <<envVars, pending_queries, processing_lock, product_summaries,
                   h_query, sweeperVars, historyVars, pol, aggVars>>

\* mutant of HandlerInsert: the guard is evaluated again, together with the
\* insert
HandlerInsertGuarded(insert_ok) ==
    /\ h_pc = "write"
    /\ product_summaries' =
           WriteAll(product_summaries,
                    GuardAll(product_summaries, h_groups, h_query, FALSE),
                    h_query, insert_ok)
    /\ h_pc' = "idle"
    /\ h_query' = NoQuery
    /\ h_groups' = {}
    /\ UNCHANGED <<envVars, pending_queries, processing_lock, sweeperVars,
                   historyVars, pol, aggVars>>

\* lines 497-519: insert_rows_json; then the rest of process_query_complete,
\* and the handler returns
HandlerInsert(insert_ok) ==
    /\ h_pc = "write"
    /\ product_summaries' =
           WriteAll(product_summaries, h_groups, h_query, insert_ok)
    /\ h_pc' = "idle"
    /\ h_query' = NoQuery
    /\ h_groups' = {}
    /\ UNCHANGED <<envVars, pending_queries, processing_lock, sweeperVars,
                   historyVars, pol, aggVars>>

\* ------------------------------------------------------------------ Sweeper
\* mutant of SweepBegin: every entry is evaluated, whatever its age
SweepBeginAll ==
    /\ s_pc = "sleep"
    /\ processing_lock = "free"
    /\ processing_lock' = "sweeper"
    /\ s_time' = 0
    /\ queries_to_process' = <<>>
    /\ s_todo' = DOMAIN pending_queries
    /\ s_pc' = "scan"
    /\ s_removed' = {}
    /\ s_invoked' = <<>>
    /\ UNCHANGED <<envVars, pending_queries, product_summaries, handlerVars,
                   s_query, s_groups, historyVars, pol, aggVars>>

\* lines 709-711 and the test of line 718 for every entry: current_time is
\* read once, and last_update cannot change while the lock is held
SweepBegin ==
    /\ s_pc = "sleep"
    /\ processing_lock = "free"
    /\ processing_lock' = "sweeper"
    /\ s_time' = 0
    /\ queries_to_process' = <<>>
    /\ s_todo' = {q \in DOMAIN pending_queries :
                    pending_queries[q].last_update >= WAIT_TIME_MINUTES}
    /\ s_pc' = "scan"
    /\ s_removed' = {}
    /\ s_invoked' = <<>>
    /\ UNCHANGED <<envVars, pending_queries, product_summaries, handlerVars,
                   s_query, s_groups, historyVars, pol, aggVars>>

\* lines 720-727 for one entry
ScanEntry(search_query, fault) ==
    LET completion_status ==
            check_query_completion(catalog, transcripts, summaries, search_query,
                                   StartAt(pending_queries[search_query].last_update),
                                   fault)
    IN  /\ s_pc = "scan"
        /\ search_query \in s_todo
        /\ s_todo' = s_todo \ {search_query}
        /\ NoteEvaluation(search_query, completion_status)
        /\ IF completion_status.completed
           THEN /\ queries_to_process' = Append(queries_to_process, search_query)
                /\ pending_queries' = DeleteEntry(pending_queries, search_query)
                /\ s_removed' = s_removed \cup {search_query}
           ELSE UNCHANGED <<queries_to_process, pending_queries, s_removed>>
        /\ UNCHANGED <<envVars, processing_lock, product_summaries, handlerVars,
                       s_pc, s_time, s_query, s_groups, s_invoked, pol, aggVars>>

\* the lock is released; lines 731-736: all_queries
ScanEnd ==
    /\ s_pc = "scan"
    /\ s_todo = {}
    /\ processing_lock' = "free"
    /\ s_todo' = {catalog[v] : v \in {u \in get_all_video_metadata(catalog) :
                                        Truthy(catalog[u])}}
    /\ s_pc' = "fallback"
    /\ UNCHANGED <<envVars, pending_queries, product_summaries, handlerVars,
                   s_time, queries_to_process, s_query, s_groups, s_removed,
                   s_invoked, historyVars, pol, aggVars>>

\* mutant of FallbackEntry: the pass looks at the query and hands nothing over
FallbackEntrySkipsAll(search_query, fault) ==
    /\ s_pc = "fallback"
    /\ search_query \in s_todo
    /\ s_todo' = s_todo \ {search_query}
    /\ UNCHANGED <<envVars, pending_queries, processing_lock,
                   product_summaries, handlerVars, s_pc, s_time,
                   queries_to_process, s_query, s_groups, s_removed,
                   s_invoked, historyVars, pol, aggVars>>

\* lines 739-744 for one query of all_queries
FallbackEntry(search_query, fault) ==
    LET completion_status ==
            check_query_completion(catalog, transcripts, summaries, search_query,
                                   StartAt(s_time), fault)
    IN  /\ s_pc = "fallback"
        /\ search_query \in s_todo
        /\ s_todo' = s_todo \ {search_query}
        /\ IF search_query \notin DOMAIN pending_queries
           THEN /\ NoteEvaluation(search_query, completion_status)
                /\ queries_to_process' =
                       IF completion_status.completed
                       THEN Append(queries_to_process, search_query)
                       ELSE queries_to_process
           ELSE UNCHANGED <<queries_to_process, was_complete>>
        /\ UNCHANGED <<envVars, pending_queries, processing_lock,
                       product_summaries, handlerVars, s_pc, s_time, s_query,
                       s_groups, s_removed, s_invoked, pol, aggVars>>

FallbackEnd ==
    /\ s_pc = "fallback"
    /\ s_todo = {}
    /\ s_pc' = "process"
    /\ s_time' = 0
    /\ UNCHANGED <<envVars, pending_queries, processing_lock, product_summaries,
                   handlerVars, s_todo, queries_to_process, s_query,
                   s_groups, s_removed, s_invoked, historyVars, pol, aggVars>>

\* lines 747-748: process_query_complete(search_query) up to the saved files
SweepProcess(gen_ok) ==
    /\ s_pc = "process"
    /\ queries_to_process # <<>>
    /\ s_query' = Head(queries_to_process)
    /\ queries_to_process' = Tail(queries_to_process)
    /\ s_invoked' = Append(s_invoked, Head(queries_to_process))
    /\ s_groups' = ProductsToInsert(catalog, transcripts, summaries,
                                    Head(queries_to_process), gen_ok)
    /\ s_pc' = "insert"
    /\ UNCHANGED <<envVars, pending_queries, processing_lock, product_summaries,
                   handlerVars, s_time, s_todo, s_removed, historyVars, pol, aggVars>>

\* lines 467-495 inside insert_product_summary_to_bigquery: the SELECT of
\* the Dedup Guard and its verdict; no lock is held
SweepGuard(check_fault) ==
    /\ s_pc = "insert"
    /\ s_groups' = GuardAll(product_summaries, s_groups, s_query, check_fault)
    /\ s_pc' = "write"
    /\ UNCHANGED <<envVars, pending_queries, processing_lock, product_summaries,
                   handlerVars, s_time, s_todo, queries_to_process, s_query,
                   s_removed, s_invoked, historyVars, pol, aggVars>>

\* lines 497-519: insert_rows_json; then the rest of that
\* process_query_complete call
SweepInsert(insert_ok) ==
    /\ s_pc = "write"
    /\ product_summaries' =
           WriteAll(product_summaries, s_groups, s_query, insert_ok)
    /\ s_pc' = "process"
    /\ s_query' = NoQuery
    /\ s_groups' = {}
    /\ UNCHANGED <<envVars, pending_queries, processing_lock, handlerVars,
                   s_time, s_todo, queries_to_process, s_removed, s_invoked,
                   historyVars, pol, aggVars>>

\* mutant of SweepRaise: the lock is not released on the way out
SweepRaiseHoldingLock ==
    /\ s_pc \in {"scan", "fallback", "process"}
    /\ s_pc' = "backoff"
    /\ s_todo' = {}
    /\ queries_to_process' = <<>>
    /\ s_time' = 0
    /\ UNCHANGED <<envVars, pending_queries, processing_lock, product_summaries,
                   handlerVars, s_query, s_groups, s_removed, s_invoked,
                   historyVars, pol, aggVars>>

\* lines 753-755: an exception raised inside the try block of an iteration.
\* Leaving the with block releases the lock; the iteration's locals are
\* dropped and the worker goes to time.sleep(60).  process_query_complete
\* catches everything itself, so nothing is raised from inside it.
SweepRaise ==
    /\ s_pc \in {"scan", "fallback", "process"}
    /\ processing_lock' = "free"
    /\ s_pc' = "backoff"
    /\ s_todo' = {}
    /\ queries_to_process' = <<>>
    /\ s_time' = 0
    /\ UNCHANGED <<envVars, pending_queries, product_summaries, handlerVars,
                   s_query, s_groups, s_removed, s_invoked, historyVars, pol, aggVars>>

\* line 755: time.sleep(60), then the next turn of while True
SweepBackoff ==
    /\ s_pc = "backoff"
    /\ s_pc' = "sleep"
    /\ s_removed' = {}
    /\ s_invoked' = <<>>
    /\ UNCHANGED <<envVars, pending_queries, processing_lock, product_summaries,
                   handlerVars, s_time, s_todo, queries_to_process, s_query,
                   s_groups, historyVars, pol, aggVars>>

\* line 751: time.sleep(30); the iteration's locals are dropped
SweepSleep ==
    /\ s_pc = "process"
    /\ queries_to_process = <<>>
    /\ s_pc' = "sleep"
    /\ s_removed' = {}
    /\ s_invoked' = <<>>
    /\ UNCHANGED <<envVars, pending_queries, processing_lock, product_summaries,
                   handlerVars, s_time, s_todo, queries_to_process, s_query,
                   s_groups, historyVars, pol, aggVars>>

\* ------------------------------------------------------------ specification
NoPol == [op |-> "none"]

\* no product group is being processed
NoProduct == [product_name |-> <<>>, videos |-> {}]

\* what an endpoint replies: the HTTP status code and the fields of the
\* JSON body that the callers of /process and /force-process read
Reply(code, status, reason, success, query, completed_videos, total_videos) ==
    [code |-> code, status |-> status, reason |-> reason, success |-> success,
     query |-> query, completed_videos |-> completed_videos,
     total_videos |-> total_videos]

\* no request has been served, or one is being served
NoResponse == Reply(0, "none", "none", FALSE, NoQuery, 0, 0)

Init ==
    /\ env_keys = {KeyPlain}
    /\ catalog = [v \in Videos |-> NoMeta]
    /\ transcripts = {}
    /\ summaries = {}
    /\ pending_queries = <<>>
    /\ processing_lock = "free"
    /\ product_summaries = <<>>
    /\ h_pc = "idle"
    /\ h_query = NoQuery
    /\ h_groups = {}
    /\ s_pc = "sleep"
    /\ s_time = 0
    /\ s_todo = {}
    /\ queries_to_process = <<>>
    /\ s_query = NoQuery
    /\ s_groups = {}
    /\ s_removed = {}
    /\ s_invoked = <<>>
    /\ was_complete = {}
    /\ pol = NoPol
    /\ a_pc = "idle"
    /\ a_caller = "none"
    /\ a_query = NoQuery
    /\ a_complete_videos = {}
    /\ product_groups = {}
    /\ a_product = NoProduct
    /\ gen_calls = 0
    /\ product_files = {}
    /\ processed_products = {}
    /\ a_log = {}
    /\ a_status = NoStatus
    /\ response = NoResponse

Environment ==
    \/ \E v \in Videos, k \in RawKeys : UploadVideo(v, k)
    \/ \E v \in Videos : WriteTranscript(v)
    \/ \E v \in Videos : WriteSummary(v)
    \/ Tick
    \/ TickHour

EventHandler ==
    \/ \E v \in Videos : HandleMetadata(v)
    \/ \E v \in Videos, fault \in BOOLEAN : HandleTranscript(v, fault)
    \/ \E v \in Videos, fault \in BOOLEAN : HandleSummary(v, fault)
    \/ \E gen_ok \in BOOLEAN : HandlerProcess(gen_ok)
    \/ \E check_fault \in BOOLEAN : HandlerGuard(check_fault)
    \/ \E insert_ok \in BOOLEAN : HandlerInsert(insert_ok)

Sweeper ==
    \/ SweepBegin
    \/ \E q \in RawKeys, fault \in BOOLEAN : ScanEntry(q, fault)
    \/ ScanEnd
    \/ \E q \in RawKeys, fault \in BOOLEAN : FallbackEntry(q, fault)
    \/ FallbackEnd
    \/ \E gen_ok \in BOOLEAN : SweepProcess(gen_ok)
    \/ \E check_fault \in BOOLEAN : SweepGuard(check_fault)
    \/ \E insert_ok \in BOOLEAN : SweepInsert(insert_ok)
    \/ SweepSleep
    \/ SweepRaise
    \/ SweepBackoff

Next == Environment \/ EventHandler \/ Sweeper

Spec == Init /\ [][Next]_vars

\* the worker thread is daemon code in a "while True" loop: it always takes
\* its next step; wall-clock time passes
LiveSpec == Spec /\ WF_vars(Sweeper) /\ WF_vars(Tick)

\* the coordinator over a store whose items carry one key in two spellings
\* and have all their artifacts: the registry starts empty, as after a
\* restart, and metadata notifications are delivered late or again
KeyCatalog == [v \in Videos |-> IF v = 1 THEN KeyPlain ELSE KeyVariant]

KeyInit ==
    /\ env_keys = {KeyPlain, KeyVariant}
    /\ catalog = KeyCatalog
    /\ transcripts = Videos
    /\ summaries = Videos
    /\ pending_queries = <<>>
    /\ processing_lock = "free"
    /\ product_summaries = <<>>
    /\ h_pc = "idle"
    /\ h_query = NoQuery
    /\ h_groups = {}
    /\ s_pc = "sleep"
    /\ s_time = 0
    /\ s_todo = {}
    /\ queries_to_process = <<>>
    /\ s_query = NoQuery
    /\ s_groups = {}
    /\ s_removed = {}
    /\ s_invoked = <<>>
    /\ was_complete = {}
    /\ pol = NoPol
    /\ a_pc = "idle"
    /\ a_caller = "none"
    /\ a_query = NoQuery
    /\ a_complete_videos = {}
    /\ product_groups = {}
    /\ a_product = NoProduct
    /\ gen_calls = 0
    /\ product_files = {}
    /\ processed_products = {}
    /\ a_log = {}
    /\ a_status = NoStatus
    /\ response = NoResponse

KeyNext ==
    \/ \E v \in Videos : HandleMetadata(v)
    \/ Sweeper
    \/ Tick

KeySpec == KeyInit /\ [][KeyNext]_vars

\* --------------------------------------------- the functions on drawn inputs
\* what one item of a drawn store is: outside the group, or in it with none,
\* one or both of its artifacts
ItemKinds == {"other", "none", "t", "s", "ts"}

StoreCatalog(items) ==
    [v \in DOMAIN items |-> IF items[v] = "other" THEN KeyEmpty ELSE KeyVariant]

StoreTranscripts(items) == {v \in DOMAIN items : items[v] \in {"t", "ts"}}

StoreSummaries(items) == {v \in DOMAIN items : items[v] \in {"s", "ts"}}

StartTimes == {NoStart} \cup {StartAt(age) : age \in 0..AgeCap}

\* check_query_completion(KeyPlain, query_start_time) on a drawn store
ApplyCheck ==
    /\ pol.op = "none"
    /\ \E n \in 0..MaxGroup, query_start_time \in StartTimes, fault \in BOOLEAN :
         \E items \in [1..n -> ItemKinds] :
            pol' = [op |-> "check",
                    items |-> items,
                    query_start_time |-> query_start_time,
                    fault |-> fault,
                    status |-> check_query_completion(
                                   StoreCatalog(items), StoreTranscripts(items),
                                   StoreSummaries(items), KeyPlain,
                                   query_start_time, fault)]
    /\ UNCHANGED <<envVars, pending_queries, processing_lock, product_summaries,
                   handlerVars, sweeperVars, historyVars, aggVars>>

ProductNike == extract_product_name(VideoTitle, KeyPlain)

RowAges == {10, StaleMinutes - 1, StaleMinutes, 2 * StaleMinutes}

\* rows for (ProductNike, KeyPlain), and one row of another search_query
DrawnRows ==
    [product_name : {ProductNike}, search_query : {KeyPlain},
     total_reviews : 1..MaxCandidate, processed_at : RowAges]
    \cup {[product_name |-> ProductNike, search_query |-> KeyVariant,
           total_reviews |-> MaxCandidate, processed_at |-> 10]}

\* insert_product_summary_to_bigquery(ProductNike, ..., KeyPlain, ...) on a
\* drawn table
ApplyInsert ==
    /\ pol.op = "none"
    /\ \E n \in 0..MaxTableRows, total_reviews \in 1..MaxCandidate,
          check_fault \in BOOLEAN, insert_ok \in BOOLEAN :
         \E table \in [1..n -> DrawnRows] :
            pol' = [op |-> "insert",
                    table |-> table,
                    total_reviews |-> total_reviews,
                    check_fault |-> check_fault,
                    insert_ok |-> insert_ok,
                    result |-> insert_product_summary_to_bigquery(
                                   table, ProductNike, 1..total_reviews,
                                   KeyPlain, check_fault, insert_ok)]
    /\ UNCHANGED <<envVars, pending_queries, processing_lock, product_summaries,
                   handlerVars, sweeperVars, historyVars, aggVars>>

GenOutcomes == {"ok", "rate_limit", "error"}

\* generate_unified_product_summary of product_summary_api from attempt
\* number attempt on (0-based, as in the code); outcomes[k] is what the k-th
\* call of chat.completions.create does.  Only openai.RateLimitError is
\* retried (lines 224-233); any other exception returns None at once
\* (lines 235-237).
RECURSIVE UnifiedFrom(_, _)
UnifiedFrom(outcomes, attempt) ==
    IF attempt > max_retries
    THEN [attempts |-> attempt, summary |-> FALSE]
    ELSE IF outcomes[attempt + 1] = "ok"
         THEN [attempts |-> attempt + 1, summary |-> TRUE]
         ELSE IF outcomes[attempt + 1] = "rate_limit" /\ attempt < max_retries
              THEN UnifiedFrom(outcomes, attempt + 1)
              ELSE [attempts |-> attempt + 1, summary |-> FALSE]

generate_unified_product_summary(outcomes) == UnifiedFrom(outcomes, 0)

\* generate_unified_product_summary on a drawn run of collaborator outcomes
ApplyGenerate ==
    /\ pol.op = "none"
    /\ \E outcomes \in [1..(max_retries + 1) -> GenOutcomes] :
          pol' = [op |-> "generate",
                  outcomes |-> outcomes,
                  result |-> generate_unified_product_summary(outcomes)]
    /\ UNCHANGED <<envVars, pending_queries, processing_lock, product_summaries,
                   handlerVars, sweeperVars, historyVars, aggVars>>

\* get_videos_by_query(search_query) on a drawn catalog; an item's
\* search_query is one of the spellings, or missing/empty (KeyEmpty)
ApplyLookup ==
    /\ pol.op = "none"
    /\ \E n \in 0..MaxLookup, search_query \in LookupKeys :
         \E cat \in [1..n -> LookupKeys] :
            pol' = [op |-> "lookup",
                    cat |-> cat,
                    search_query |-> search_query,
                    result |-> get_videos_by_query(cat, search_query)]
    /\ UNCHANGED <<envVars, pending_queries, processing_lock, product_summaries,
                   handlerVars, sweeperVars, historyVars, aggVars>>

PureNext == ApplyCheck \/ ApplyInsert \/ ApplyGenerate \/ ApplyLookup

PureSpec == Init /\ [][PureNext]_vars

\* ---------------------------------------------------- one aggregation run
\* process_query_complete step by step, called by the Event Handler, by the
\* Sweeper or by /force-process, on a store drawn at the start.  The items
\* carry the two spellings of one two-word key, so the group has two product
\* names.  insert_video_metadata_to_bigquery (line 693) writes another table
\* and save_concatenated_transcripts (line 659) decides nothing; both are
\* left out.
RunVideos == 1..MaxRunVideos

RunCatalog ==
    [v \in RunVideos |-> IF 2 * v <= MaxRunVideos THEN KeyTwoWords ELSE KeyWide]

Callers == {"handler", "sweeper", "force"}

\* query_start_time as each caller passes it: lines 822/839, 720/742, 974
CallerStartTimes(caller) ==
    CASE caller = "handler" -> {StartAt(0)}
      [] caller = "sweeper" -> {StartAt(0), StartAt(AgeCap)}
      [] OTHER -> {NoStart}

\* min_completed of the request body of /force-process (line 968); the other
\* callers have no such argument
MinCompletedChoices(caller) ==
    IF caller = "force" THEN 0..MIN_REVIEWS_PER_PRODUCT ELSE {0}

\* line 980: completion_status['completed_videos'] < min_completed
NotEnoughCompleted(completed_videos, min_completed) ==
    completed_videos < min_completed

\* mutant of EnoughReviews: one review is enough
AnyReviews(videos) == Cardinality(videos) >= 1

\* line 646: len(videos) >= MIN_REVIEWS_PER_PRODUCT
EnoughReviews(videos) == Cardinality(videos) >= MIN_REVIEWS_PER_PRODUCT

\* mutant of CompleteVideos: no item is filtered out
AllQueryVideos(query_videos, trs, sums) == query_videos

\* lines 611-627: the items with both artifacts
CompleteVideos(query_videos, trs, sums) ==
    {v \in query_videos : IsCompleteVideo(v, trs, sums)}

MinOf(S) == CHOOSE x \in S : \A y \in S : x <= y

\* product_groups.items(): a dict keeps the order in which its keys were
\* inserted, that is the order of each group's first item in the listing
FirstGroup(groups) ==
    CHOOSE g \in groups : \A h \in groups : MinOf(g.videos) <= MinOf(h.videos)

Logged(log, product_name, event) ==
    log \cup {[product_name |-> product_name, event |-> event]}

\* the caller's decision and lines 597-639 of process_query_complete;
\* fault: a store call of the caller's check_query_completion raises;
\* probe_fault: a store call of lines 601-627 raises (return False, line 703)
RunStart(caller, search_query, query_start_time, min_completed, fault, probe_fault) ==
    LET completion_status ==
            check_query_completion(catalog, transcripts, summaries,
                                   search_query, query_start_time, fault)
        query_videos == get_videos_by_query(catalog, search_query)
        completes == CompleteVideos(query_videos, transcripts, summaries)
    IN  /\ a_pc = "idle"
        /\ Truthy(search_query)
        /\ query_start_time \in CallerStartTimes(caller)
        /\ IF caller = "force"
           THEN ~NotEnoughCompleted(completion_status.completed_videos,
                                    min_completed)
           ELSE completion_status.completed
        /\ query_videos # {}
        /\ ~probe_fault
        /\ completes # {}
        /\ a_pc' = "loop"
        /\ a_caller' = caller
        /\ a_query' = search_query
        /\ a_complete_videos' = completes
        /\ product_groups' = group_videos_by_product(catalog, completes)
        /\ a_product' = NoProduct
        /\ gen_calls' = 0
        /\ UNCHANGED <<envVars, pending_queries, processing_lock,
                       product_summaries, handlerVars, sweeperVars,
                       historyVars, pol, product_files, processed_products,
                       a_log>>
        /\ a_status' = completion_status
        /\ response' = NoResponse

\* lines 643-646 and 682-683: the next product group of the loop
NextProduct ==
    LET g == FirstGroup(product_groups)
    IN  /\ a_pc = "loop"
        /\ product_groups # {}
        /\ product_groups' = product_groups \ {g}
        /\ gen_calls' = 0
        /\ IF EnoughReviews(g.videos)
           THEN /\ a_pc' = "generate"
                /\ a_product' = g
                /\ UNCHANGED a_log
           ELSE /\ a_log' = Logged(a_log, g.product_name, "skipped_few_reviews")
                /\ UNCHANGED <<a_pc, a_product>>
        /\ UNCHANGED <<envVars, pending_queries, processing_lock,
                       product_summaries, handlerVars, sweeperVars,
                       historyVars, pol, a_caller, a_query, a_complete_videos,
                       product_files, processed_products,
                   a_status, response>>

\* mutant of Generate: a failed generation ends the whole run
GenerateAbortsRun(outcome) ==
    /\ a_pc = "generate"
    /\ gen_calls' = gen_calls + 1
    /\ IF outcome = "ok"
       THEN /\ a_pc' = "save"
            /\ UNCHANGED <<a_product, a_log, product_groups>>
       ELSE /\ a_pc' = "loop"
            /\ a_product' = NoProduct
            /\ product_groups' = {}
            /\ a_log' = Logged(a_log, a_product.product_name, "summary_failed")
    /\ UNCHANGED <<envVars, pending_queries, processing_lock,
                   product_summaries, handlerVars, sweeperVars, historyVars,
                   pol, a_caller, a_query, a_complete_videos,
                   product_files, processed_products,
                   a_status, response>>

\* lines 650-653 with generate_product_summary (lines 381-397): one call of
\* ChatCompletion.create; any exception, a rate-limit response included, is
\* caught at line 395 and None is returned
Generate(outcome) ==
    /\ a_pc = "generate"
    /\ gen_calls' = gen_calls + 1
    /\ IF outcome = "ok"
       THEN /\ a_pc' = "save"
            /\ UNCHANGED <<a_product, a_log>>
       ELSE /\ a_pc' = "loop"
            /\ a_product' = NoProduct
            /\ a_log' = Logged(a_log, a_product.product_name, "summary_failed")
    /\ UNCHANGED <<envVars, pending_queries, processing_lock,
                   product_summaries, handlerVars, sweeperVars, historyVars,
                   pol, a_caller, a_query, a_complete_videos, product_groups,
                   product_files, processed_products,
                   a_status, response>>

\* lines 656-663 and 680-681: save_product_summary and save_product_metadata
\* return "" when the upload raises
SaveFiles(summary_ok, metadata_ok) ==
    /\ a_pc = "save"
    /\ product_files' =
           IF summary_ok \/ metadata_ok
           THEN product_files \cup
                    {[product_name |-> a_product.product_name,
                      video_ids |-> a_product.videos,
                      total_reviews |-> Cardinality(a_product.videos),
                      summary_file |-> summary_ok,
                      metadata_file |-> metadata_ok]}
           ELSE product_files
    /\ IF summary_ok /\ metadata_ok
       THEN /\ a_pc' = "insert"
            /\ UNCHANGED <<a_product, a_log>>
       ELSE /\ a_pc' = "loop"
            /\ a_product' = NoProduct
            /\ a_log' = Logged(a_log, a_product.product_name, "save_failed")
    /\ UNCHANGED <<envVars, pending_queries, processing_lock,
                   product_summaries, handlerVars, sweeperVars, historyVars,
                   pol, a_caller, a_query, a_complete_videos, product_groups,
                   gen_calls, processed_products,
                   a_status, response>>

\* lines 665-679: the Dedup Guard and the insert; the product is appended to
\* processed_products whatever insert_product_summary_to_bigquery returns
InsertRow(check_fault, insert_ok) ==
    LET table ==
            insert_product_summary_to_bigquery(
                product_summaries, a_product.product_name, a_product.videos,
                a_query, check_fault,
                insert_ok /\ Len(product_summaries) < MaxRows)
        bigquery_success ==
            \/ Len(table) > Len(product_summaries)
            \/ ~GuardAllowsInsert(product_summaries, a_product.product_name,
                                  a_query, Cardinality(a_product.videos),
                                  check_fault)
    IN  /\ a_pc = "insert"
        /\ product_summaries' = table
        /\ processed_products' = processed_products \cup {a_product.product_name}
        /\ a_log' = Logged(a_log, a_product.product_name,
                           IF bigquery_success THEN "processed"
                           ELSE "insert_failed")
        /\ a_pc' = "loop"
        /\ a_product' = NoProduct
        /\ UNCHANGED <<envVars, pending_queries, processing_lock, handlerVars,
                       sweeperVars, historyVars, pol, a_caller, a_query,
                       a_complete_videos, product_groups, gen_calls,
                       product_files,
                   a_status, response>>

\* lines 685-687: an exception inside one turn of the loop
ProductRaise ==
    /\ a_pc \in {"generate", "save", "insert"}
    /\ a_log' = Logged(a_log, a_product.product_name, "error")
    /\ a_pc' = "loop"
    /\ a_product' = NoProduct
    /\ UNCHANGED <<envVars, pending_queries, processing_lock,
                   product_summaries, handlerVars, sweeperVars, historyVars,
                   pol, a_caller, a_query, a_complete_videos, product_groups,
                   gen_calls, product_files, processed_products,
                   a_status, response>>

\* lines 689-699: the loop is over and the run returns
\* len(processed_products) > 0; its locals are gone.  The caller replies:
\* /force-process with lines 993-999, the Event Handler with lines 851-856
RunEnd ==
    /\ a_pc = "loop"
    /\ product_groups = {}
    /\ a_pc' = "idle"
    /\ a_caller' = "none"
    /\ a_query' = NoQuery
    /\ a_complete_videos' = {}
    /\ product_files' = {}
    /\ processed_products' = {}
    /\ a_log' = {}
    /\ a_status' = NoStatus
    /\ response' =
           CASE a_caller = "force"
                  -> Reply(200, "processed", "none", processed_products # {},
                           a_query, a_status.completed_videos,
                           a_status.total_videos)
             [] a_caller = "handler"
                  -> Reply(200, "monitoring", "none", FALSE, NoQuery, 0, 0)
             [] OTHER -> NoResponse
    /\ UNCHANGED <<envVars, pending_queries, processing_lock,
                   product_summaries, handlerVars, sweeperVars, historyVars,
                   pol, product_groups, a_product, gen_calls>>

\* the store of a run: every item has its transcript, some have a summary
AggInit ==
    /\ env_keys = RunKeys
    /\ catalog = RunCatalog
    /\ transcripts = RunVideos
    /\ summaries \in SUBSET RunVideos
    /\ pending_queries = <<>>
    /\ processing_lock = "free"
    /\ product_summaries = <<>>
    /\ h_pc = "idle"
    /\ h_query = NoQuery
    /\ h_groups = {}
    /\ s_pc = "sleep"
    /\ s_time = 0
    /\ s_todo = {}
    /\ queries_to_process = <<>>
    /\ s_query = NoQuery
    /\ s_groups = {}
    /\ s_removed = {}
    /\ s_invoked = <<>>
    /\ was_complete = {}
    /\ pol = NoPol
    /\ a_pc = "idle"
    /\ a_caller = "none"
    /\ a_query = NoQuery
    /\ a_complete_videos = {}
    /\ product_groups = {}
    /\ a_product = NoProduct
    /\ gen_calls = 0
    /\ product_files = {}
    /\ processed_products = {}
    /\ a_log = {}
    /\ a_status = NoStatus
    /\ response = NoResponse

AggNext ==
    \/ \E caller \in Callers, search_query \in RunKeys :
         \E query_start_time \in CallerStartTimes(caller),
            min_completed \in MinCompletedChoices(caller),
            fault \in BOOLEAN, probe_fault \in BOOLEAN :
           RunStart(caller, search_query, query_start_time, min_completed,
                    fault, probe_fault)
    \/ NextProduct
    \/ \E outcome \in GenOutcomes : Generate(outcome)
    \/ \E summary_ok, metadata_ok \in BOOLEAN : SaveFiles(summary_ok, metadata_ok)
    \/ \E check_fault, insert_ok \in BOOLEAN : InsertRow(check_fault, insert_ok)
    \/ ProductRaise
    \/ RunEnd
    \/ TickHour

AggSpec == AggInit /\ [][AggNext]_vars

\* ------------------------------------------------------------ the endpoints
\* POST /force-process and POST /process on the store of a run, with a
\* registry that may hold the entry of the group
ForceQueries == RunKeys \cup {KeyEmpty, KeyPlain}

\* force_process_query when it replies without a run of the product loop:
\* no search_query (line 971), too few completed items (lines 980-987), or
\* process_query_complete returns False before its loop (lines 604, 631,
\* 703) and the reply is that of lines 993-999.  fault: a store call of
\* check_query_completion raises; probe_fault: one of lines 601-627 does
ForceProcessNoRun(search_query, min_completed, fault, probe_fault) ==
    LET completion_status ==
            check_query_completion(catalog, transcripts, summaries,
                                   search_query, NoStart, fault)
        query_videos == get_videos_by_query(catalog, search_query)
        completes == CompleteVideos(query_videos, transcripts, summaries)
    IN  /\ a_pc = "idle"
        /\ IF ~Truthy(search_query)
           THEN response' = Reply(400, "error", "search_query is required",
                                  FALSE, NoQuery, 0, 0)
           ELSE IF NotEnoughCompleted(completion_status.completed_videos,
                                      min_completed)
           THEN response' = Reply(400, "error", "not enough completed videos",
                                  FALSE, search_query,
                                  completion_status.completed_videos,
                                  completion_status.total_videos)
           ELSE /\ query_videos = {} \/ probe_fault \/ completes = {}
                /\ response' = Reply(200, "processed", "none", FALSE,
                                     search_query,
                                     completion_status.completed_videos,
                                     completion_status.total_videos)
        /\ UNCHANGED <<envVars, pending_queries, processing_lock,
                       product_summaries, handlerVars, sweeperVars,
                       historyVars, pol, a_pc, a_caller, a_query,
                       a_complete_videos, product_groups, a_product, gen_calls,
                       product_files, processed_products, a_log, a_status>>

\* the events POST /process can carry
SOURCE_BUCKET == "youtube-processed-data-bucket"
EventTypes == {"OBJECT_FINALIZE", "OBJECT_DELETE"}
Buckets == {SOURCE_BUCKET, "other-bucket"}
FileNames ==
    [dir : {"processed/videos/", "transcripts/", "summaries/", "products/"},
     ext : {".json", ".txt"}]

\* lines 802, 813 and 830: startswith and endswith of the three file types
MonitoredFile(file_name) ==
    \/ file_name.dir = "processed/videos/" /\ file_name.ext = ".json"
    \/ file_name.dir = "transcripts/" /\ file_name.ext = ".txt"
    \/ file_name.dir = "summaries/" /\ file_name.ext = ".txt"

\* process_webhook and product_aggregator for an event that reaches none of
\* the three branches: the two early returns of lines 792-799, or the fall
\* through to the reply of lines 851-856; jsonify gives HTTP 200
ProcessWebhookOther(event_type, bucket_name, file_name) ==
    /\ a_pc = "idle"
    /\ ~(/\ event_type = "OBJECT_FINALIZE"
         /\ bucket_name = SOURCE_BUCKET
         /\ MonitoredFile(file_name))
    /\ response' =
           IF event_type # "OBJECT_FINALIZE"
           THEN Reply(200, "skipped", "event type", FALSE, NoQuery, 0, 0)
           ELSE IF bucket_name # SOURCE_BUCKET
           THEN Reply(200, "skipped", "bucket", FALSE, NoQuery, 0, 0)
           ELSE Reply(200, "monitoring", "none", FALSE, NoQuery, 0, 0)
    /\ UNCHANGED <<envVars, pending_queries, processing_lock,
                   product_summaries, handlerVars, sweeperVars, historyVars,
                   pol, a_pc, a_caller, a_query, a_complete_videos,
                   product_groups, a_product, gen_calls, product_files,
                   processed_products, a_log, a_status>>

\* summaries exist for the first items of the listing
RunSummaries == {1..k : k \in 0..MaxRunVideos}

\* the registry holds nothing, or the entry of the group, just updated
RunRegistries ==
    {<<>>, [q \in {KeyTwoWords} |-> [last_update |-> 0, videos |-> <<>>]]}

ApiInit ==
    /\ env_keys = RunKeys
    /\ catalog = RunCatalog
    /\ transcripts = RunVideos
    /\ summaries \in RunSummaries
    /\ pending_queries \in RunRegistries
    /\ processing_lock = "free"
    /\ product_summaries = <<>>
    /\ h_pc = "idle"
    /\ h_query = NoQuery
    /\ h_groups = {}
    /\ s_pc = "sleep"
    /\ s_time = 0
    /\ s_todo = {}
    /\ queries_to_process = <<>>
    /\ s_query = NoQuery
    /\ s_groups = {}
    /\ s_removed = {}
    /\ s_invoked = <<>>
    /\ was_complete = {}
    /\ pol = NoPol
    /\ a_pc = "idle"
    /\ a_caller = "none"
    /\ a_query = NoQuery
    /\ a_complete_videos = {}
    /\ product_groups = {}
    /\ a_product = NoProduct
    /\ gen_calls = 0
    /\ product_files = {}
    /\ processed_products = {}
    /\ a_log = {}
    /\ a_status = NoStatus
    /\ response = NoResponse

ApiNext ==
    \/ \E search_query \in RunKeys,
          min_completed \in MinCompletedChoices("force"),
          fault \in BOOLEAN, probe_fault \in BOOLEAN :
         RunStart("force", search_query, NoStart, min_completed, fault,
                  probe_fault)
    \/ NextProduct
    \/ \E outcome \in GenOutcomes : Generate(outcome)
    \/ \E summary_ok, metadata_ok \in BOOLEAN : SaveFiles(summary_ok, metadata_ok)
    \/ \E check_fault, insert_ok \in BOOLEAN : InsertRow(check_fault, insert_ok)
    \/ ProductRaise
    \/ RunEnd
    \/ \E search_query \in ForceQueries,
          min_completed \in MinCompletedChoices("force"),
          fault \in BOOLEAN, probe_fault \in BOOLEAN :
         ForceProcessNoRun(search_query, min_completed, fault, probe_fault)
    \/ \E event_type \in EventTypes, bucket_name \in Buckets,
          file_name \in FileNames :
         ProcessWebhookOther(event_type, bucket_name, file_name)

ApiSpec == ApiInit /\ [][ApiNext]_vars

\* ------------------------------------------------------------------ claims
Occurrences(seq, x) == Cardinality({i \in 1..Len(seq) : seq[i] = x})

\* C1: when a Sweeper iteration has run its processing loop to the end, every
\* key whose entry it removed has been passed to process_query_complete
\* exactly once
SweeperInvokesOncePerRemoval ==
    (s_pc = "process" /\ queries_to_process = <<>>)
        => \A q \in s_removed : Occurrences(s_invoked, q) = 1

\* C2: the Event Handler and the Sweeper are never inside
\* process_query_complete for the same group at the same time
NoConcurrentAggregation ==
    ~(h_pc = "insert" /\ s_pc = "insert" /\ SameGroup(h_query, s_query))

\* C3: while the Event Handler is aggregating a group it has judged ready, the
\* registry holds no entry for that group's key (an entry can only be created
\* by the handler itself, so any entry present was there at the judgement)
RegistryOnlyUnjudged ==
    h_pc \in {"process", "insert"} => h_query \notin DOMAIN pending_queries

WaitStartNeverMoves ==
    [][\A q \in DOMAIN pending_queries \cap DOMAIN pending_queries' :
          pending_queries'[q].last_update >= pending_queries[q].last_update]_vars

\* C6: for a group that is not fully complete the result is completed, by
\* timeout, exactly when a start time is given, the elapsed time exceeds the
\* window and completed/total >= the minimum rate; with the scenarios of the
\* specification
TimeoutRule ==
    pol.op = "check" =>
        LET st == pol.status
            total == Cardinality({v \in DOMAIN pol.items : pol.items[v] # "other"})
            done == Cardinality({v \in DOMAIN pol.items : pol.items[v] = "ts"})
            start == pol.query_start_time
            exceeds == start # NoStart /\ start[1] > QUERY_TIMEOUT_MINUTES
            rate_ok ==
                /\ st.total_videos > 0
                /\ st.completed_videos * RATE_DEN >= RATE_NUM * st.total_videos
            fully == st.completed_videos = st.total_videos /\ st.total_videos > 0
        IN  /\ ~fully => /\ st.completed <=> (exceeds /\ rate_ok)
                         /\ st.completed <=> st.timeout_complete
            /\ (~pol.fault /\ total = 3 /\ done = 2 /\ start = StartAt(1))
                   => ~st.completed
            /\ (~pol.fault /\ total = 3 /\ done = 2 /\ start = StartAt(6))
                   => /\ st.timeout_complete
                      /\ st.completed_videos = 2
                      /\ st.total_videos = 3
            /\ (~pol.fault /\ total = 4 /\ done < 2 /\ exceeds) => ~st.completed

\* C6 witness: the 3-item group with 2 complete items, evaluated 6 minutes
\* after its start, is ready by timeout
TimedOutPartialScenario ==
    /\ pol.op = "check"
    /\ ~pol.fault
    /\ Cardinality({v \in DOMAIN pol.items : pol.items[v] # "other"}) = 3
    /\ Cardinality({v \in DOMAIN pol.items : pol.items[v] = "ts"}) = 2
    /\ pol.query_start_time = StartAt(6)
    /\ pol.status.timeout_complete
    /\ pol.status.completed

\* C7: the result is COMPLETE exactly when the group has an item and every
\* item of it was probed with both artifacts present; a group without items
\* is not complete, with total 0 and reason no_videos_found
CompleteIffAllPresent ==
    pol.op = "check" =>
        LET st == pol.status
            total == Cardinality({v \in DOMAIN pol.items : pol.items[v] # "other"})
            done == Cardinality({v \in DOMAIN pol.items : pol.items[v] = "ts"})
        IN  /\ (st.completed /\ ~st.timeout_complete)
                   <=> (total > 0 /\ done = total /\ ~pol.fault)
            /\ ~pol.fault => /\ st.total_videos = total
                             /\ st.completed_videos = done
            /\ total = 0 => /\ ~st.completed
                            /\ st.total_videos = 0
                            /\ st.reason = "no_videos_found"

\* C7 witness: a group of at least two items, all with both artifacts, is
\* reported COMPLETE although no start time was given
CompleteGroupReported ==
    /\ pol.op = "check"
    /\ Cardinality({v \in DOMAIN pol.items : pol.items[v] = "ts"}) >= 2
    /\ \A v \in DOMAIN pol.items : pol.items[v] \in {"ts", "other"}
    /\ pol.query_start_time = NoStart
    /\ pol.status.completed

\* C8: once some evaluation of a group was COMPLETE, an evaluation of its
\* registry entry by the Sweeper is COMPLETE again, or the entry is gone
CompletionNeverReverts ==
    [][\A q \in s_todo \ s_todo' :
          (s_pc = "scan" /\ normalize_query(q) \in was_complete)
              => q \notin DOMAIN pending_queries']_vars

\* Counts of a group in the store, and the steps that hand a group over
GroupTotal(q) == Cardinality(get_videos_by_query(catalog, q))

GroupDone(q) ==
    Cardinality({v \in get_videos_by_query(catalog, q) :
                    v \in transcripts /\ v \in summaries})

BelowFloor(q) ==
    /\ ~(GroupDone(q) = GroupTotal(q) /\ GroupTotal(q) > 0)
    /\ \/ GroupTotal(q) = 0
       \/ GroupDone(q) * RATE_DEN < RATE_NUM * GroupTotal(q)

HandedOver(q) ==
    \/ h_pc = "idle" /\ h_pc' = "process" /\ h_query' = q
    \/ /\ s_pc \in {"scan", "fallback"}
       /\ Len(queries_to_process') = Len(queries_to_process) + 1
       /\ queries_to_process'[Len(queries_to_process')] = q

\* C9: no step of the Event Handler or of either Sweeper pass hands over a
\* group that, in the store the evaluation reads, is not fully complete and
\* has a completion rate below the minimum; and no step removes the registry
\* entry of such a group
NoHandOverBelowFloor ==
    [][\A q \in RawKeys :
          (\/ HandedOver(q)
           \/ q \in DOMAIN pending_queries /\ q \notin DOMAIN pending_queries')
              => ~BelowFloor(q)]_vars

\* C9 witness: the Sweeper has just evaluated an entry older than the timeout
\* whose group is below the floor, and has kept it
StalledGroupKept ==
    /\ s_pc = "fallback"
    /\ s_time = 0
    /\ queries_to_process = <<>>
    /\ KeyPlain \in DOMAIN pending_queries
    /\ pending_queries[KeyPlain].last_update > QUERY_TIMEOUT_MINUTES
    /\ GroupTotal(KeyPlain) > 0
    /\ BelowFloor(KeyPlain)

\* C10: with the SELECT and the insert succeeding, a row is written exactly
\* when no row exists for the key, or the candidate has more reviews than the
\* most recent row, or that row is older than the staleness threshold
DedupWritesIffClaimed ==
    (pol.op = "insert" /\ ~pol.check_fault /\ pol.insert_ok) =>
        LET rows == {i \in 1..Len(pol.table) :
                        /\ pol.table[i].product_name = ProductNike
                        /\ pol.table[i].search_query = KeyPlain}
            newest == {i \in rows :
                        \A j \in rows \ {i} :
                            pol.table[i].processed_at < pol.table[j].processed_at}
            written == Len(pol.result) = Len(pol.table) + 1
        IN  (rows = {} \/ newest # {}) =>
                (written <=>
                    \/ rows = {}
                    \/ \E i \in newest :
                          \/ pol.total_reviews > pol.table[i].total_reviews
                          \/ pol.table[i].processed_at > StaleMinutes)

\* C17: no evaluation of a group (catalog scan and artifact probes of
\* check_query_completion) is made by a thread while it holds the registry
\* lock
NoStoreReadUnderLock ==
    [][\A q \in RawKeys : \A fault \in BOOLEAN :
          (ScanEntry(q, fault) \/ FallbackEntry(q, fault))
              => processing_lock # "sweeper"]_vars

\* C18: when a probe of one artifact of one item raises, the evaluation
\* still reports the group's total and counts every item whose two artifacts
\* are present, except possibly the item whose probe raised
ProbeErrorIsolated ==
    (pol.op = "check" /\ pol.fault) =>
        LET st == pol.status
            total == Cardinality({v \in DOMAIN pol.items : pol.items[v] # "other"})
            done == Cardinality({v \in DOMAIN pol.items : pol.items[v] = "ts"})
        IN  /\ st.total_videos = total
            /\ st.completed_videos <= done
            /\ st.completed_videos >= done - 1

\* C15: a group that is complete from some point on, and for which from
\* some point on no notification arrives (and no store call of the Sweeper
\* fails any more), is handed to process_query_complete by the Sweeper again
\* and again, with or without a registry entry
GroupCompleteNow(q) == GroupTotal(q) > 0 /\ GroupDone(q) = GroupTotal(q)

SweeperAggregates(q) == s_pc = "insert" /\ SameGroup(s_query, q)

NoDisturbance ==
    /\ ~(\E v \in Videos : HandleMetadata(v))
    /\ ~SweepRaise
    /\ \A k \in RawKeys :
          /\ ScanEntry(k, TRUE) => ScanEntry(k, FALSE)
          /\ FallbackEntry(k, TRUE) => FallbackEntry(k, FALSE)

SweeperSurvivesErrors ==
    /\ [](s_pc \in {"backoff", "sleep"} => processing_lock = "free")
    /\ (s_pc = "backoff" ~> s_pc = "scan")
    /\ []<>(s_pc = "scan")

\* C16 witness: an iteration was abandoned after it had removed an entry
\* under the lock, and the lock is free
IterationAbandoned ==
    /\ s_pc = "backoff"
    /\ s_removed # {}
    /\ processing_lock = "free"

\* C11: the table never holds two rows for the same group and product with
\* the same review count that were both created within the last staleness
\* window
NoFreshDuplicateRecords ==
    \A i, j \in 1..Len(product_summaries) :
        (/\ i < j
         /\ product_summaries[i].product_name = product_summaries[j].product_name
         /\ SameGroup(product_summaries[i].search_query,
                      product_summaries[j].search_query)
         /\ product_summaries[i].total_reviews = product_summaries[j].total_reviews)
            => ~(/\ product_summaries[i].processed_at < StaleMinutes
                 /\ product_summaries[j].processed_at < StaleMinutes)

\* the most recent row for the product and query is recent and at least as
\* complete as the product group
Covered(g, search_query) ==
    /\ ExistingRows(product_summaries, g.product_name, search_query) # {}
    /\ LET existing == MostRecentRow(product_summaries, g.product_name, search_query)
       IN  DedupSkips(Cardinality(g.videos), existing.total_reviews,
                      existing.processed_at)

\* C12: a run makes no generation call and saves no product file and no row
\* for a product group whose most recent row is recent and at least as
\* complete
NoRedundantWork ==
    [][(a_pc \in {"generate", "save", "insert"} /\ Covered(a_product, a_query))
          => /\ gen_calls' = gen_calls
             /\ product_files' = product_files
             /\ Len(product_summaries') = Len(product_summaries)]_vars

\* C13: whoever called the run, a product group with fewer than
\* MIN_REVIEWS_PER_PRODUCT items is never the one being generated, saved or
\* inserted, and no saved file and no row counts fewer reviews
MinimumReviewsFloor ==
    /\ a_pc \in {"generate", "save", "insert"}
          => Cardinality(a_product.videos) >= MIN_REVIEWS_PER_PRODUCT
    /\ \A f \in product_files :
          Cardinality(f.video_ids) >= MIN_REVIEWS_PER_PRODUCT
    /\ \A i \in 1..Len(product_summaries) :
          product_summaries[i].total_reviews >= MIN_REVIEWS_PER_PRODUCT

\* C13 witness: a forced run has gone through all product groups and has
\* skipped one for having too few reviews
ForcedRunSkipsSmallGroup ==
    /\ a_caller = "force"
    /\ a_pc = "loop"
    /\ product_groups = {}
    /\ \E e \in a_log :
          /\ e.event = "skipped_few_reviews"
          /\ \E g \in group_videos_by_product(catalog, a_complete_videos) :
                g.product_name = e.product_name /\ Cardinality(g.videos) = 1

\* C14: the items a run works on all have both artifacts; the video ids and
\* the review count of every saved product file, and the review count of
\* every row the run writes, are those of such items only
OnlyCompletedSubsetUsed ==
    [][/\ \A v \in a_complete_videos' : v \in transcripts' /\ v \in summaries'
       /\ a_product'.videos \subseteq a_complete_videos'
       /\ \A f \in product_files' :
             /\ f.video_ids \subseteq a_complete_videos'
             /\ f.total_reviews = Cardinality(f.video_ids)
       /\ Len(product_summaries') > Len(product_summaries)
             => /\ a_product.videos \subseteq a_complete_videos
                /\ product_summaries'[Len(product_summaries')].total_reviews
                       = Cardinality(a_product.videos)]_vars

\* C14 witness: a run started by the Sweeper for a group with an incomplete
\* item has saved the files of a product
PartialGroupAggregated ==
    /\ a_caller = "sweeper"
    /\ get_videos_by_query(catalog, a_query) \ a_complete_videos # {}
    /\ \E f \in product_files : f.summary_file /\ f.metadata_file

RowsKept ==
    /\ Len(product_summaries') >= Len(product_summaries)
    /\ \A i \in 1..Len(product_summaries) :
          /\ product_summaries'[i].product_name = product_summaries[i].product_name
          /\ product_summaries'[i].search_query = product_summaries[i].search_query
          /\ product_summaries'[i].total_reviews = product_summaries[i].total_reviews

\* C19: whatever happens to one product group, the run stays in its loop
\* with the remaining product groups untouched, returns only when none is
\* left, and no row, file or processed product of the run is taken back
PerProductFailureIsolated ==
    [][/\ a_pc \in {"generate", "save", "insert"}
          => /\ a_pc' # "idle"
             /\ product_groups' = product_groups
       /\ (a_pc # "idle" /\ a_pc' = "idle")
          => (a_pc = "loop" /\ product_groups = {})
       /\ RowsKept
       /\ (a_pc # "idle" /\ a_pc' # "idle")
          => /\ product_files \subseteq product_files'
             /\ processed_products \subseteq processed_products']_vars

\* C19 witness: in one run a product group has failed and another one has
\* been processed and has its row
OneProductFailedOtherPersisted ==
    \E e \in a_log :
        /\ e.event \in {"summary_failed", "save_failed", "insert_failed", "error"}
        /\ \E p \in processed_products :
              /\ p # e.product_name
              /\ ExistingRows(product_summaries, p, a_query) # {}

\* C20: a generation call that fails below the attempt ceiling is followed
\* by another generation call for the same product group
GenerationErrorsRetried ==
    [][\A outcome \in {"rate_limit", "error"} :
          (Generate(outcome) /\ gen_calls + 1 < max_retries + 1)
              => /\ a_pc' = "generate"
                 /\ a_product' = a_product]_vars

\* the words of a string: its maximal runs of non-space characters
RECURSIVE Words(_)
Words(s) ==
    IF s = <<>> THEN <<>>
    ELSE IF IsSpace(Head(s)) THEN Words(Tail(s))
    ELSE LET rest == Words(Tail(s))
         IN  IF Len(s) > 1 /\ ~IsSpace(s[2])
             THEN <<(<<Head(s)>> \o Head(rest))>> \o Tail(rest)
             ELSE <<(<<Head(s)>>)>> \o rest

\* equal after lower-casing, trimming and collapsing internal whitespace:
\* the same words in the same order, letter case aside
EquivalentKeys(a, b) == Words(LowerStr(a)) = Words(LowerStr(b))

\* C21: a lookup returns exactly the items whose key is equivalent to the
\* query, every equivalent query returns the same items, and items keyed
\* "Ni Ke", " ni   ke " and "NI KE" are in one group
GroupIndexByNormalizedKey ==
    pol.op = "lookup" =>
        /\ \A q \in LookupKeys :
              EquivalentKeys(q, pol.search_query)
                  => get_videos_by_query(pol.cat, q) = pol.result
        /\ \A v \in DOMAIN pol.cat :
              v \in pol.result <=> EquivalentKeys(pol.cat[v], pol.search_query)
        /\ pol.search_query \in {KeyTitle, KeyPadded, KeyUpper}
              => \A v \in DOMAIN pol.cat :
                    pol.cat[v] \in {KeyTitle, KeyPadded, KeyUpper}
                        => v \in pol.result

\* C21 witness: a lookup by the upper-case spelling has returned the items
\* keyed in title case and with padding, and has left out an item of
\* another group
SpellingsShareGroup ==
    /\ pol.op = "lookup"
    /\ pol.search_query = KeyUpper
    /\ \E u, v, w \in DOMAIN pol.cat :
          /\ pol.cat[u] = KeyTitle
          /\ pol.cat[v] = KeyPadded
          /\ pol.cat[w] = KeyPlain
          /\ u \in pol.result
          /\ v \in pol.result
          /\ w \notin pol.result

\* C23: whatever non-empty query string an entry point evaluates, the items
\* the Group Index returns all have a non-empty key
EmptyKeyItemsExcluded ==
    (pol.op = "lookup" /\ Truthy(pol.search_query))
        => \A v \in pol.result : Truthy(pol.cat[v])

\* C22: the registry never holds two keys of one group, the Sweeper's list
\* of queries to process never holds a group twice, and the keys one
\* iteration looks at are pairwise of different groups
OneKeyPerGroup ==
    /\ \A k, q \in DOMAIN pending_queries : SameGroup(k, q) => k = q
    /\ \A k, q \in s_todo : SameGroup(k, q) => k = q
    /\ \A i, j \in 1..Len(queries_to_process) :
          SameGroup(queries_to_process[i], queries_to_process[j]) => i = j

\* C27: an iteration's known-pending pass takes up only entries at least a
\* wait window old; only an entry it has taken up is evaluated, removed or
\* put on the list of queries to process by that pass, and the fallback
\* pass puts a key on the list only when the registry has no entry for it
WaitWindowRespected ==
    [][/\ (s_pc = "sleep" /\ s_pc' = "scan")
          => \A q \in DOMAIN pending_queries :
                pending_queries[q].last_update < WAIT_TIME_MINUTES
                    => q \notin s_todo'
       /\ (s_pc = "scan" /\ s_pc' = "scan") => s_todo' \subseteq s_todo
       /\ \A q \in DOMAIN pending_queries \ DOMAIN pending_queries' :
             s_pc = "scan" /\ q \in s_todo
       /\ (s_pc = "scan" /\ s_pc' = "scan"
                /\ queries_to_process' # queries_to_process)
          => \E q \in s_todo :
                queries_to_process' = Append(queries_to_process, q)
       /\ (s_pc = "fallback" /\ s_pc' = "fallback"
                /\ queries_to_process' # queries_to_process)
          => \E q \in s_todo \ DOMAIN pending_queries :
                queries_to_process' = Append(queries_to_process, q)]_vars

\* C27 witness: both passes of an iteration are over within the minute it
\* began; the entry of a complete group, last updated before the iteration
\* began and less than a wait window ago, is still there and nothing is to
\* be processed
FreshCompleteEntryKept ==
    /\ s_pc = "fallback"
    /\ s_todo = {}
    /\ s_time = 0
    /\ queries_to_process = <<>>
    /\ s_removed = {}
    /\ KeyPlain \in DOMAIN pending_queries
    /\ pending_queries[KeyPlain].last_update >= 1
    /\ pending_queries[KeyPlain].last_update < WAIT_TIME_MINUTES
    /\ GroupCompleteNow(KeyPlain)

\* C29: an entry is inserted or refreshed only by a step that takes and
\* returns the free lock, and removed only by the Sweeper while it holds the
\* lock; no step does both, so while the Sweeper scans under the lock the
\* registry changes by its own deletions only
RegistryMutatedUnderLock ==
    [][LET added == DOMAIN pending_queries' \ DOMAIN pending_queries
           removed == DOMAIN pending_queries \ DOMAIN pending_queries'
           refreshed ==
               {q \in DOMAIN pending_queries \cap DOMAIN pending_queries' :
                   pending_queries'[q].last_update < pending_queries[q].last_update}
       IN  /\ (added # {} \/ refreshed # {})
              => /\ processing_lock = "free"
                 /\ processing_lock' = "free"
                 /\ removed = {}
           /\ removed # {}
              => /\ processing_lock = "sweeper"
                 /\ processing_lock' = "sweeper"
                 /\ s_pc = "scan"
                 /\ added = {}
                 /\ refreshed = {}]_vars

\* C29 witness: the Sweeper holds the lock and has deleted the entry of a
\* key whose item's metadata notification would insert it again
InsertWaitsForScan ==
    /\ processing_lock = "sweeper"
    /\ s_pc = "scan"
    /\ s_removed # {}
    /\ h_pc = "idle"
    /\ \E v \in Videos :
          /\ catalog[v] # NoMeta
          /\ Truthy(catalog[v])
          /\ catalog[v] \in s_removed
          /\ catalog[v] \notin DOMAIN pending_queries

\* C30: a transcript or summary notification and the Sweeper's fallback
\* pass hand a group over only when every item of it has both artifacts
OnlyCompleteWithoutEntry ==
    [][\A q \in RawKeys :
          (HandedOver(q) /\ s_pc # "scan") => GroupCompleteNow(q)]_vars

\* process_query_complete is being called for the group of q
Aggregating(q) ==
    \/ s_pc = "insert" /\ SameGroup(s_query, q)
    \/ h_pc \in {"process", "insert"} /\ SameGroup(h_query, q)

FreshRowsOf(table, g, search_query) ==
    {i \in 1..Len(table) :
        /\ table[i].product_name = g.product_name
        /\ table[i].search_query = search_query
        /\ table[i].total_reviews = Cardinality(g.videos)
        /\ table[i].processed_at < StaleMinutes}

\* C28: a run that has passed the Dedup Guard writes its row when the
\* insert succeeds, whatever the table has received since the guard's
\* SELECT: every product group that passed gets one more fresh row
GuardNotAtomicWithInsert ==
    [][/\ (HandlerInsert(TRUE)
              /\ Len(product_summaries) + Cardinality(h_groups) <= MaxRows)
          => \A g \in h_groups :
                Cardinality(FreshRowsOf(product_summaries', g, h_query))
                    = Cardinality(FreshRowsOf(product_summaries, g, h_query)) + 1
       /\ (SweepInsert(TRUE)
              /\ Len(product_summaries) + Cardinality(s_groups) <= MaxRows)
          => \A g \in s_groups :
                Cardinality(FreshRowsOf(product_summaries', g, s_query))
                    = Cardinality(FreshRowsOf(product_summaries, g, s_query)) + 1]_vars

\* C28 witness: the Event Handler and the Sweeper, running for the same
\* query, have both read the empty table and passed the guard with the
\* same product group, and neither has written yet
BothPastGuard ==
    /\ h_pc = "write"
    /\ s_pc = "write"
    /\ h_query = s_query
    /\ h_groups = s_groups
    /\ h_groups # {}
    /\ product_summaries = <<>>

\* C24: a /force-process request for a non-empty query leaves the registry
\* as it is; when min_completed exceeds the number of items of the group
\* that have both artifacts the reply is 400 and no run starts; when it does
\* not, process_query_complete is called (a run starts, or the call returns
\* at once and the reply is 200 with success and both counts), whatever the
\* entry's age and the completion rate
ForceProcessByCompletedCount ==
    [][(/\ a_pc = "idle"
        /\ \/ a_caller' = "force"
           \/ response'.status \in {"error", "processed"} /\ Truthy(response'.query))
       => LET q == IF a_caller' = "force" THEN a_query' ELSE response'.query
              group == get_videos_by_query(catalog, q)
              done == {v \in group : v \in transcripts /\ v \in summaries}
          IN  \A mc \in MinCompletedChoices("force") :
              \A fault, probe_fault \in BOOLEAN :
                 (\/ ForceProcessNoRun(q, mc, fault, probe_fault)
                  \/ RunStart("force", q, NoStart, mc, fault, probe_fault))
                 => /\ pending_queries' = pending_queries
                    /\ IF mc > Cardinality(done)
                       THEN /\ a_pc' = "idle"
                            /\ response'.code = 400
                       ELSE \/ /\ a_pc' = "loop"
                               /\ a_caller' = "force"
                               /\ a_query' = q
                            \/ /\ a_pc' = "idle"
                               /\ response'.code = 200
                               /\ response'.status = "processed"]_vars

\* the same contract on the counts that the evaluation reports (the group's
\* counts when the store answers, 0 and 0 when a store call raises): 400 with
\* both counts and no run when min_completed exceeds the reported count,
\* otherwise process_query_complete is called and the reply is 200 with
\* success and both counts
ForceProcessContract ==
    [][/\ (/\ a_pc = "idle"
           /\ \/ a_caller' = "force"
              \/ response'.status \in {"error", "processed"} /\ Truthy(response'.query))
          => LET q == IF a_caller' = "force" THEN a_query' ELSE response'.query
                 group == get_videos_by_query(catalog, q)
                 done == {v \in group : v \in transcripts /\ v \in summaries}
             IN  \A mc \in MinCompletedChoices("force") :
                 \A fault, probe_fault \in BOOLEAN :
                    LET status == check_query_completion(
                                      catalog, transcripts, summaries, q,
                                      NoStart, fault)
                    IN  (\/ ForceProcessNoRun(q, mc, fault, probe_fault)
                         \/ RunStart("force", q, NoStart, mc, fault, probe_fault))
                        => /\ pending_queries' = pending_queries
                           /\ product_summaries' = product_summaries
                           /\ ~fault
                              => /\ status.completed_videos = Cardinality(done)
                                 /\ status.total_videos = Cardinality(group)
                           /\ IF mc > status.completed_videos
                              THEN /\ a_pc' = "idle"
                                   /\ response'.code = 400
                                   /\ ~response'.success
                                   /\ response'.completed_videos
                                          = status.completed_videos
                                   /\ response'.total_videos
                                          = status.total_videos
                              ELSE \/ /\ a_pc' = "loop"
                                      /\ a_caller' = "force"
                                      /\ a_query' = q
                                      /\ a_status' = status
                                   \/ /\ done = {} \/ probe_fault
                                      /\ a_pc' = "idle"
                                      /\ response' =
                                             Reply(200, "processed", "none",
                                                   FALSE, q,
                                                   status.completed_videos,
                                                   status.total_videos)
       /\ (a_caller = "force" /\ a_pc # "idle" /\ a_pc' = "idle")
          => /\ response'.code = 200
             /\ response'.success = (processed_products # {})
             /\ response'.query = a_query
             /\ response'.completed_videos = a_status.completed_videos
             /\ response'.total_videos = a_status.total_videos
             /\ pending_queries' = pending_queries]_vars

\* a forced run has gone through the product groups of a group
\* whose completion rate is below the minimum and whose registry entry is
\* younger than the wait window
ForcedRunBelowFloor ==
    /\ a_caller = "force"
    /\ a_pc = "loop"
    /\ product_groups = {}
    /\ a_status.completed_videos >= 1
    /\ a_status.completed_videos * RATE_DEN < RATE_NUM * a_status.total_videos
    /\ a_query \in DOMAIN pending_queries
    /\ pending_queries[a_query].last_update < WAIT_TIME_MINUTES

\* C25: an event that is no OBJECT_FINALIZE under a monitored prefix of the
\* source bucket is answered with HTTP 200 and a "skipped" status with a
\* reason, and changes neither the registry nor the table, and starts no
\* run
OtherEventsSkipped ==
    [][\A event_type \in EventTypes, bucket_name \in Buckets,
          file_name \in FileNames :
          ProcessWebhookOther(event_type, bucket_name, file_name)
              => /\ response'.code = 200
                 /\ response'.status = "skipped"
                 /\ response'.reason # "none"
                 /\ pending_queries' = pending_queries
                 /\ product_summaries' = product_summaries
                 /\ a_pc' = "idle"]_vars

====
